---- MODULE Spec2Model ----
(***************************************************************************)
(* Kea lease manager (src/lease_manager.py): the lease-log reconciler      *)
(* read_lease_file, the per-address history get_lease_history, the         *)
(* config-topology extractor get_subnet_info and the reservation builder   *)
(* generate_reservation_config.                                            *)
(*                                                                         *)
(* Python strings that the code parses, splits, compares or lowercases are *)
(* sequences of one-character strings, so that int(), str.split('.') and   *)
(* str.lower() are computed and not assumed.  Python's None is the value   *)
(* None below; a raised exception is a record [ok |-> FALSE, exc |-> name];*)
(* the field raised of a result names the exception that left the function *)
(* ("none" when it returned).                                              *)
(***************************************************************************)
EXTENDS Integers, Sequences, FiniteSets, TLC

VARIABLES leaseFile, configFile, call, ret, locals, memo

vars == <<leaseFile, configFile, call, ret, locals, memo>>

(***************************************************************************)
(* Bounds of the model.                                                    *)
(***************************************************************************)
\* Longest lease log (data rows after the header) that is enumerated.
MaxRows == 2
\* Longest subnet4 list that is enumerated.
MaxDefs == 2
\* Longest hardware address given to the reservation builder.
MaxMacLen == 2
\* Largest epoch datetime.fromtimestamp accepts; it stands for the platform's
\* limit (year 9999 / time_t), scaled down to the epochs the model uses.
TimestampMax == 99

(***************************************************************************)
(* Python values.                                                          *)
(***************************************************************************)
None == <<"None">>

Ok(v) == [ok |-> TRUE, v |-> v]
Raise(e) == [ok |-> FALSE, exc |-> e]

\* bool(s) of a str or None
Truthy(s) == s /= None /\ s /= <<>>

Digits == {"0", "1", "2", "3", "4", "5", "6", "7", "8", "9"}

DigitValue(c) ==
    CASE c = "0" -> 0 [] c = "1" -> 1 [] c = "2" -> 2 [] c = "3" -> 3
      [] c = "4" -> 4 [] c = "5" -> 5 [] c = "6" -> 6 [] c = "7" -> 7
      [] c = "8" -> 8 [] c = "9" -> 9

DigitChar(d) ==
    CASE d = 0 -> "0" [] d = 1 -> "1" [] d = 2 -> "2" [] d = 3 -> "3"
      [] d = 4 -> "4" [] d = 5 -> "5" [] d = 6 -> "6" [] d = 7 -> "7"
      [] d = 8 -> "8" [] d = 9 -> "9"

RECURSIVE DigitsValue(_)
DigitsValue(s) ==
    IF s = <<>> THEN 0
    ELSE 10 * DigitsValue(SubSeq(s, 1, Len(s) - 1)) + DigitValue(s[Len(s)])

\* int(s): the decimal value of a digit string (leading zeros allowed);
\* ValueError for '' and for any other character, TypeError for None.
\* (Signs, surrounding blanks and underscores are not among the characters
\* the model's inputs use.)
PyInt(s) ==
    IF s = None THEN Raise("TypeError")
    ELSE IF s = <<>> \/ \E i \in 1..Len(s) : s[i] \notin Digits THEN Raise("ValueError")
    ELSE Ok(DigitsValue(s))

RECURSIVE PyStr(_)
\* str(n) of an int n >= 0
PyStr(n) == IF n < 10 THEN <<DigitChar(n)>> ELSE PyStr(n \div 10) \o <<DigitChar(n % 10)>>

RECURSIVE Split(_)
\* s.split('.')
Split(s) ==
    IF \A i \in 1..Len(s) : s[i] /= "." THEN <<s>>
    ELSE LET k == CHOOSE i \in 1..Len(s) : s[i] = "." /\ \A j \in 1..(i - 1) : s[j] /= "."
         IN  <<SubSeq(s, 1, k - 1)>> \o Split(SubSeq(s, k + 1, Len(s)))

\* datetime.fromtimestamp(n).strftime('%Y-%m-%d %H:%M:%S'): the formatted local
\* time of epoch n, or an exception when n is outside the platform's range.
FormatTimestamp(n) ==
    IF n > TimestampMax THEN Raise("OverflowError")
    ELSE Ok(<<"%Y-%m-%d %H:%M:%S", n>>)

RECURSIVE TupleLess(_, _)
\* a < b for two tuples of ints (lexicographic, a proper prefix is smaller)
TupleLess(a, b) ==
    IF b = <<>> THEN FALSE
    ELSE IF a = <<>> THEN TRUE
    ELSE IF Head(a) /= Head(b) THEN Head(a) < Head(b)
    ELSE TupleLess(Tail(a), Tail(b))

\* key a sorts before key b: a < b, or a > b under reverse=True
KeyBefore(a, b, reverse) == IF reverse THEN TupleLess(b, a) ELSE TupleLess(a, b)

RECURSIVE InsertSorted(_, _, _)
\* x put into the sorted list s after every element whose key does not sort
\* after its own: the step of a stable sort
InsertSorted(s, x, reverse) ==
    IF s = <<>> THEN <<x>>
    ELSE IF KeyBefore(x.key, Head(s).key, reverse) THEN <<x>> \o s
    ELSE <<Head(s)>> \o InsertSorted(Tail(s), x, reverse)

RECURSIVE StableSort(_, _, _)
\* list.sort(key=..., reverse=...): keyed is the list of [key, item], each key
\* a tuple of ints; the result is in key order, equal keys in their original
\* order (also under reverse=True)
StableSort(keyed, reverse, acc) ==
    IF keyed = <<>> THEN acc
    ELSE StableSort(Tail(keyed), reverse, InsertSorted(acc, Head(keyed), reverse))

Items(keyed) == [i \in 1..Len(keyed) |-> keyed[i].item]

(***************************************************************************)
(* The lease log: csv.DictReader over LEASE_FILE.                          *)
(***************************************************************************)
LEASE_FILE == "/tmp/kea-leases4.csv"
KEA_CONFIG_FILE == "/etc/kea/kea-dhcp4.conf"

IndexOf(header, k) == CHOOSE i \in 1..Len(header) : header[i] = k

\* One row of csv.DictReader: the header's names zipped with the row's cells,
\* a name past the end of a short row mapped to None (restval).
DictRow(header, cells) ==
    [k \in {header[i] : i \in 1..Len(header)} |->
        IF IndexOf(header, k) <= Len(cells) THEN cells[IndexOf(header, k)] ELSE None]

\* row.get(k, default)
Get(row, k, default) == IF k \in DOMAIN row THEN row[k] ELSE default

(***************************************************************************)
(* The strings the enumerated lease logs are made of.                      *)
(***************************************************************************)
Ip9 == <<"9", ".", "0", ".", "0", ".", "1">>
Ip10 == <<"1", "0", ".", "0", ".", "0", ".", "1">>
\* another spelling of 9.0.0.1
Ip9z == <<"9", ".", "0", ".", "0", ".", "0", "1">>
\* an address field that is no dotted quad
IpBad == <<"x", ".", "0", ".", "0", ".", "1">>
Ip8 == <<"8", ".", "8", ".", "8", ".", "8">>
Mac == <<"a", "a">>
St0 == <<"0">>
St1 == <<"1">>

FullHeader == <<"address", "hwaddr", "expire", "state">>
\* a log written without the state column
NoStateHeader == <<"address", "hwaddr", "expire">>
Headers == {FullHeader, NoStateHeader}

\* The rows (cells in header order) the enumerated logs draw from: active rows
\* of one address with every kind of expire field (empty, "0", two spellings
\* of 5, 7, non-numeric), an inactive row with the greatest expire, a second
\* address (active, out of range, inactive), a second spelling of the first
\* address, a non-numeric address, an empty address and two short rows.
RowPool ==
    { <<Ip9, Mac, e, St0>> : e \in {<<>>, <<"0">>, <<"5">>, <<"0", "5">>, <<"7">>, <<"x">>} }
    \cup { <<Ip9, Mac, <<"8">>, St1>>,
           <<Ip10, Mac, <<"5">>, St0>>,
           <<Ip10, Mac, <<"9", "9", "9">>, St0>>,
           <<Ip10, Mac, <<"7">>, St1>>,
           <<Ip9z, Mac, <<"7">>, St0>>,
           <<IpBad, Mac, <<"5">>, St0>>,
           <<<<>>, Mac, <<"5">>, St0>>,
           <<Ip9>>,
           <<Ip10, Mac, <<"5">>>> }

RECURSIVE SeqsUpTo(_, _)
\* the sequences over S of length at most n
SeqsUpTo(S, n) ==
    IF n = 0 THEN {<<>>}
    ELSE LET shorter == SeqsUpTo(S, n - 1)
         IN  shorter \cup {Append(q, x) : q \in {r \in shorter : Len(r) = n - 1}, x \in S}

\* the addresses asked of get_lease_history
Queries == {Ip9, Ip10, Ip8}

(***************************************************************************)
(* read_lease_file                                                         *)
(***************************************************************************)
NoExpiration == <<"No expiration">>
InvalidDate == <<"Invalid date">>

\* lines 37-46: the display string and the epoch of a raw expire field
LeaseExpire(expire_ts) ==
    IF Truthy(expire_ts) /\ expire_ts /= <<"0">>
    THEN LET n == PyInt(expire_ts)
         IN  IF n.ok /\ FormatTimestamp(n.v).ok
             THEN [expire_date |-> FormatTimestamp(n.v).v, expire_timestamp |-> n.v]
             ELSE [expire_date |-> InvalidDate, expire_timestamp |-> 0]
    ELSE [expire_date |-> NoExpiration, expire_timestamp |-> 0]

\* lines 48-59 (hostname, subnet_id, client_id and valid_lifetime are copied
\* from the row like mac and are left out)
lease_data(row) ==
    LET expire_ts == Get(row, "expire", <<"0">>)
    IN  [ip |-> Get(row, "address", <<>>),
         mac |-> Get(row, "hwaddr", <<>>),
         expire |-> LeaseExpire(expire_ts).expire_date,
         expire_ts |-> expire_ts,
         expire_timestamp |-> LeaseExpire(expire_ts).expire_timestamp,
         state |-> Get(row, "state", <<"0">>)]

\* line 32: only rows with an address and state "0" are taken
IsActiveRow(row) == Truthy(Get(row, "address", None)) /\ Get(row, "state", <<"0">>) = <<"0">>

\* lease_dict is a dict in insertion order: the list of its values, keyed by ip
DictHas(d, ip) == \E i \in 1..Len(d) : d[i].ip = ip
DictGet(d, ip) == d[CHOOSE i \in 1..Len(d) : d[i].ip = ip]
DictSet(d, ip, v) ==
    IF DictHas(d, ip) THEN [i \in 1..Len(d) |-> IF d[i].ip = ip THEN v ELSE d[i]]
    ELSE Append(d, v)

\* Replaces with >= for >: the last of the rows with the greatest epoch wins
ReplacesOnTie(d, new) ==
    ~DictHas(d, new.ip) \/ new.expire_timestamp >= DictGet(d, new.ip).expire_timestamp

\* line 62: a row replaces the stored lease of its address
Replaces(d, new) ==
    ~DictHas(d, new.ip) \/ new.expire_timestamp > DictGet(d, new.ip).expire_timestamp

\* lines 30-63 for one row
ConsumeRow(d, row) ==
    IF IsActiveRow(row) /\ Replaces(d, lease_data(row))
    THEN DictSet(d, lease_data(row).ip, lease_data(row))
    ELSE d

RECURSIVE ScanLeases(_, _, _)
\* lines 30-63: the loop over the rows
ScanLeases(header, rows, d) ==
    IF rows = <<>> THEN d
    ELSE ScanLeases(header, Tail(rows), ConsumeRow(d, DictRow(header, Head(rows))))

\* tuple(map(int, ip.split('.'))): the sort key of line 69
IpKey(ip) ==
    LET parts == Split(ip)
    IN  IF \E i \in 1..Len(parts) : ~PyInt(parts[i]).ok THEN Raise("ValueError")
        ELSE Ok([i \in 1..Len(parts) |-> PyInt(parts[i]).v])

\* the code points of the characters of an address
CharCode(c) == CASE c = "." -> 46 [] c = "x" -> 120 [] OTHER -> 48 + DigitValue(c)

\* SortLeases with the address compared as a string: leases.sort(key=lambda x: x['ip'])
SortLeasesByString(leases) ==
    Ok(Items(StableSort(
          [i \in 1..Len(leases) |->
              [key |-> [k \in 1..Len(leases[i].ip) |-> CharCode(leases[i].ip[k])],
               item |-> leases[i]]],
          FALSE, <<>>)))

\* line 69: leases.sort(key=...), which raises when a key cannot be computed
SortLeases(leases) ==
    IF \E i \in 1..Len(leases) : ~IpKey(leases[i].ip).ok THEN Raise("ValueError")
    ELSE Ok(Items(StableSort(
                 [i \in 1..Len(leases) |-> [key |-> IpKey(leases[i].ip).v, item |-> leases[i]]],
                 FALSE, <<>>)))

NotFound == <<"Lease file not found", LEASE_FILE>>
ReadError(cause) == <<"Error reading lease file", cause>>

\* CatchesException narrowed to the failures of the file system: except OSError
CatchesOnlyOSError(exc) == exc = "OSError"

\* the handler of line 72 (and 111): except Exception catches every exception
\* the body raises
CatchesException(exc) == TRUE

\* the lease_dict a call of read_lease_file finds in its hands when the
\* dictionary is a module-level one that is never cleared
KeptLeaseDict == IF call.fn = "read_lease_file" THEN locals ELSE <<>>

\* line 21: lease_dict = {}, a new dictionary at every call
NewLeaseDict == <<>>

\* lines 23-24: the early return for a missing file
ReadLeaseNotFound ==
    [raised |-> "none", records |-> <<>>, err |-> NotFound, lease_dict |-> NewLeaseDict]

\* lines 72-73: what the call ends in when exc is raised inside the try block
\* with lease_dict being d
ReadLeaseFailed(exc, d) ==
    IF CatchesException(exc)
    THEN [raised |-> "none", records |-> <<>>, err |-> ReadError(exc), lease_dict |-> d]
    ELSE [raised |-> exc, records |-> <<>>, err |-> None, lease_dict |-> d]

\* lines 66-70: list, sort and return, after the loop has left lease_dict d
ReadLeaseReturn(d) ==
    LET sorted == SortLeases(d)
    IN  IF sorted.ok
        THEN [raised |-> "none", records |-> sorted.v, err |-> None, lease_dict |-> d]
        ELSE ReadLeaseFailed(sorted.exc, d)

\* lines 18-73.  io is what open() and the reads do on an existing file: "ok",
\* or "OSError" when the operating system refuses.
ReadLeaseFile(file, io) ==
    IF ~file.exists THEN ReadLeaseNotFound
    ELSE IF io /= "ok" THEN ReadLeaseFailed(io, NewLeaseDict)
    ELSE ReadLeaseReturn(ScanLeases(file.header, file.rows, NewLeaseDict))

(***************************************************************************)
(* get_lease_history                                                       *)
(***************************************************************************)
\* HistoryExpire without the test for "0": if expire_ts:
HistoryExpireZeroAsDate(expire_ts) ==
    IF Truthy(expire_ts)
    THEN LET n == PyInt(expire_ts)
         IN  IF n.ok /\ FormatTimestamp(n.v).ok THEN FormatTimestamp(n.v).v ELSE InvalidDate
    ELSE NoExpiration

\* lines 88-94: the display string of a raw expire field
HistoryExpire(expire_ts) ==
    IF Truthy(expire_ts) /\ expire_ts /= <<"0">>
    THEN LET n == PyInt(expire_ts)
         IN  IF n.ok /\ FormatTimestamp(n.v).ok THEN FormatTimestamp(n.v).v ELSE InvalidDate
    ELSE NoExpiration

\* lines 96-105 (hostname, subnet_id and valid_lifetime are copied from the
\* row like mac and are left out)
history_entry(row) ==
    LET expire_ts == Get(row, "expire", <<"0">>)
    IN  [ip |-> Get(row, "address", <<>>),
         mac |-> Get(row, "hwaddr", <<>>),
         expire |-> HistoryExpire(expire_ts),
         expire_ts |-> expire_ts,
         state |-> Get(row, "state", <<>>)]

\* line 86: the rows of the queried address, by string equality
MatchesTarget(row, target_ip) == Get(row, "address", None) = target_ip

RECURSIVE ScanHistory(_, _, _, _)
\* lines 85-105: the loop over the rows
ScanHistory(header, rows, target_ip, history) ==
    IF rows = <<>> THEN history
    ELSE LET row == DictRow(header, Head(rows))
         IN  ScanHistory(header, Tail(rows), target_ip,
                         IF MatchesTarget(row, target_ip)
                         THEN Append(history, history_entry(row))
                         ELSE history)

\* int(x.get('expire_ts', '0')): the sort key of line 108
HistoryKey(entry) == PyInt(entry.expire_ts)

\* line 108: history.sort(key=..., reverse=True); it raises the exception of
\* the first entry whose key cannot be computed
SortHistory(history) ==
    IF \E i \in 1..Len(history) : ~HistoryKey(history[i]).ok
    THEN LET k == CHOOSE i \in 1..Len(history) :
                      /\ ~HistoryKey(history[i]).ok
                      /\ \A j \in 1..(i - 1) : HistoryKey(history[j]).ok
         IN  Raise(HistoryKey(history[k]).exc)
    ELSE Ok(Items(StableSort(
                 [i \in 1..Len(history) |-> [key |-> <<HistoryKey(history[i]).v>>,
                                             item |-> history[i]]],
                 TRUE, <<>>)))

\* lines 79-80: the early return for a missing file
HistoryNotFound == [raised |-> "none", records |-> <<>>, err |-> NotFound, history |-> <<>>]

\* lines 111-112: what the call ends in when exc is raised inside the try
\* block with history being h
HistoryFailed(exc, h) ==
    IF CatchesException(exc)
    THEN [raised |-> "none", records |-> <<>>, err |-> ReadError(exc), history |-> h]
    ELSE [raised |-> exc, records |-> <<>>, err |-> None, history |-> h]

\* lines 75-112
GetLeaseHistory(file, target_ip, io) ==
    IF ~file.exists THEN HistoryNotFound
    ELSE IF io /= "ok" THEN HistoryFailed(io, <<>>)
    ELSE LET h == ScanHistory(file.header, file.rows, target_ip, <<>>)
             sorted == SortHistory(h)
         IN  IF sorted.ok
             THEN [raised |-> "none", records |-> sorted.v, err |-> None, history |-> h]
             ELSE HistoryFailed(sorted.exc, h)

(***************************************************************************)
(* The state machine of the lease log.  leaseFile is the external file;    *)
(* call is the last invocation (with what os.path.exists and the reads     *)
(* did), ret what it returned and locals its local variable lease_dict or  *)
(* history as the function left it.                                        *)
(***************************************************************************)
NoCall == [fn |-> "none", arg |-> None, exists |-> FALSE, io |-> "none"]

\* memo is an observer's notebook, no state of the program: turn flips at
\* every call, seen holds at most one earlier call with what it read and
\* returned, and again tells that the last call had the arguments and read
\* the contents of the call in seen
NoMemo == [turn |-> 0, seen |-> <<>>, again |-> FALSE]

\* what the operating system may do when an existing file is opened and read
IOOutcomes == {"ok", "OSError"}

LeaseFiles == [exists : BOOLEAN, header : Headers, rows : SeqsUpTo(RowPool, MaxRows)]

NoConfig == [exists |-> FALSE, valid |-> TRUE, shape |-> "subnets", defs |-> <<>>]

Init ==
    /\ leaseFile \in LeaseFiles
    /\ configFile = NoConfig
    /\ call = NoCall
    /\ ret = None
    /\ locals = None
    /\ memo = NoMemo

\* lines 18-73 run once on the lease log as it is
ReadLeaseFileCall ==
    /\ \E io \in IOOutcomes :
        /\ leaseFile.exists \/ io = "ok"
        /\ \E r \in {ReadLeaseFile(leaseFile, io)} :
               /\ call' = [fn |-> "read_lease_file", arg |-> None,
                           exists |-> leaseFile.exists, io |-> io]
               /\ ret' = [raised |-> r.raised, records |-> r.records, err |-> r.err]
               /\ locals' = r.lease_dict
    /\ UNCHANGED <<leaseFile, configFile>>

\* GET /api/leases, GET / : one call of read_lease_file
read_lease_file ==
    /\ call = NoCall
    /\ ReadLeaseFileCall
    /\ UNCHANGED memo

\* lines 75-112 run once on the lease log as it is
GetLeaseHistoryCall ==
    /\ \E target_ip \in Queries, io \in IOOutcomes :
        /\ leaseFile.exists \/ io = "ok"
        /\ \E r \in {GetLeaseHistory(leaseFile, target_ip, io)} :
               /\ call' = [fn |-> "get_lease_history", arg |-> target_ip,
                           exists |-> leaseFile.exists, io |-> io]
               /\ ret' = [raised |-> r.raised, records |-> r.records, err |-> r.err]
               /\ locals' = r.history
    /\ UNCHANGED <<leaseFile, configFile>>

\* GET /api/lease-history/<ip> : one call of get_lease_history
get_lease_history ==
    /\ call = NoCall
    /\ GetLeaseHistoryCall
    /\ UNCHANGED memo

\* the adapter has sent the response: nothing of the call is kept
Respond ==
    /\ call /= NoCall
    /\ call' = NoCall
    /\ ret' = None
    /\ locals' = None
    /\ UNCHANGED <<leaseFile, configFile, memo>>

\* the DHCP server (or an operator) removes the lease log
RemoveLeaseFile ==
    /\ leaseFile.exists
    /\ leaseFile' = [leaseFile EXCEPT !.exists = FALSE]
    /\ UNCHANGED <<configFile, call, ret, locals, memo>>

\* the DHCP server writes the lease log again
CreateLeaseFile ==
    /\ ~leaseFile.exists
    /\ leaseFile' = [leaseFile EXCEPT !.exists = TRUE]
    /\ UNCHANGED <<configFile, call, ret, locals, memo>>

Next ==
    \/ read_lease_file
    \/ get_lease_history
    \/ Respond
    \/ RemoveLeaseFile
    \/ CreateLeaseFile

Spec == Init /\ [][Next]_vars

(***************************************************************************)
(* The lease log functions statement by statement.  A call in progress     *)
(* carries in call.io where it stands ("checked": os.path.exists answered  *)
(* True and open() is next; "reading": the file is open and the loop is at *)
(* row call.pos + 1) and in locals its lease_dict so far.  The DHCP server *)
(* removes and recreates the file between any two statements; a file that  *)
(* is open stays readable.  A finished call has call.io "ok", "OSError" or *)
(* "FileNotFoundError": what open() and the reads did.                     *)
(***************************************************************************)
InProgress == {"checked", "reading"}

Running(fn, target_ip, at, pos) ==
    [fn |-> fn, arg |-> target_ip, exists |-> TRUE, io |-> at, pos |-> pos]

\* lines 20-24 of read_lease_file
read_lease_file_exists ==
    /\ call = NoCall
    /\ IF leaseFile.exists
       THEN /\ call' = Running("read_lease_file", None, "checked", 0)
            /\ ret' = None
            /\ locals' = NewLeaseDict
       ELSE /\ call' = [fn |-> "read_lease_file", arg |-> None, exists |-> FALSE, io |-> "ok"]
            /\ ret' = [raised |-> "none", records |-> ReadLeaseNotFound.records,
                       err |-> ReadLeaseNotFound.err]
            /\ locals' = ReadLeaseNotFound.lease_dict
    /\ UNCHANGED <<leaseFile, configFile, memo>>

\* lines 27-29 of read_lease_file: open() of a file that is gone raises
\* FileNotFoundError inside the try block
read_lease_file_open ==
    /\ call /= NoCall
    /\ call.fn = "read_lease_file"
    /\ call.io = "checked"
    /\ \E io \in IF leaseFile.exists THEN IOOutcomes ELSE {"FileNotFoundError"} :
        IF io = "ok"
        THEN /\ call' = Running("read_lease_file", None, "reading", 0)
             /\ UNCHANGED <<ret, locals>>
        ELSE \E r \in {ReadLeaseFailed(io, locals)} :
             /\ call' = [fn |-> "read_lease_file", arg |-> None, exists |-> TRUE, io |-> io]
             /\ ret' = [raised |-> r.raised, records |-> r.records, err |-> r.err]
             /\ locals' = r.lease_dict
    /\ UNCHANGED <<leaseFile, configFile, memo>>

\* lines 30-63 of read_lease_file for the next row
read_lease_file_row ==
    /\ call /= NoCall
    /\ call.fn = "read_lease_file"
    /\ call.io = "reading"
    /\ call.pos < Len(leaseFile.rows)
    /\ call' = [call EXCEPT !.pos = call.pos + 1]
    /\ locals' = ConsumeRow(locals, DictRow(leaseFile.header, leaseFile.rows[call.pos + 1]))
    /\ UNCHANGED <<leaseFile, configFile, ret, memo>>

\* lines 66-73 of read_lease_file, after the last row
read_lease_file_return ==
    /\ call /= NoCall
    /\ call.fn = "read_lease_file"
    /\ call.io = "reading"
    /\ call.pos = Len(leaseFile.rows)
    /\ \E r \in {ReadLeaseReturn(locals)} :
           /\ call' = [fn |-> "read_lease_file", arg |-> None, exists |-> TRUE, io |-> "ok"]
           /\ ret' = [raised |-> r.raised, records |-> r.records, err |-> r.err]
           /\ locals' = r.lease_dict
    /\ UNCHANGED <<leaseFile, configFile, memo>>

\* lines 77-80 of get_lease_history
get_lease_history_exists ==
    /\ call = NoCall
    /\ \E target_ip \in Queries :
        IF leaseFile.exists
        THEN /\ call' = Running("get_lease_history", target_ip, "checked", 0)
             /\ ret' = None
             /\ locals' = <<>>
        ELSE /\ call' = [fn |-> "get_lease_history", arg |-> target_ip,
                         exists |-> FALSE, io |-> "ok"]
             /\ ret' = [raised |-> "none", records |-> HistoryNotFound.records,
                        err |-> HistoryNotFound.err]
             /\ locals' = HistoryNotFound.history
    /\ UNCHANGED <<leaseFile, configFile, memo>>

\* lines 82-112 of get_lease_history: open(), the loop and the sort
get_lease_history_open ==
    /\ call /= NoCall
    /\ call.fn = "get_lease_history"
    /\ call.io = "checked"
    /\ \E io \in IF leaseFile.exists THEN IOOutcomes ELSE {"FileNotFoundError"} :
        \E r \in {IF io = "FileNotFoundError" THEN HistoryFailed(io, locals)
                  ELSE GetLeaseHistory(leaseFile, call.arg, io)} :
             /\ call' = [fn |-> "get_lease_history", arg |-> call.arg,
                         exists |-> TRUE, io |-> io]
             /\ ret' = [raised |-> r.raised, records |-> r.records, err |-> r.err]
             /\ locals' = r.history
    /\ UNCHANGED <<leaseFile, configFile, memo>>

\* the adapter sends the response of a call that has returned
RespondReturned ==
    /\ call.io \notin InProgress
    /\ Respond

NextStatements ==
    \/ read_lease_file_exists
    \/ read_lease_file_open
    \/ read_lease_file_row
    \/ read_lease_file_return
    \/ get_lease_history_exists
    \/ get_lease_history_open
    \/ RespondReturned
    \/ RemoveLeaseFile
    \/ CreateLeaseFile

SpecStatements == Init /\ [][NextStatements]_vars

(***************************************************************************)
(* get_subnet_info.  The config file is a document `{"Dhcp4": {"subnet4":  *)
(* [...]}}` or another shape; valid says whether json.loads accepts its    *)
(* text (a comment, a trailing comma or a cut-off end makes it fail).  A   *)
(* subnet4 entry is an object, given by its key/value pairs in the order   *)
(* of the text, or some other JSON value.                                  *)
(***************************************************************************)
IdKey(digits) == <<"id", digits>>
SubnetKey(cidr) == <<"subnet", cidr>>
OtherKey == <<"pools", <<>>>>
Object(keys) == [object |-> TRUE, keys |-> keys]
NotAnObject == [object |-> FALSE, keys |-> <<>>]

CidrA == <<"a", "/", "8">>
CidrB == <<"b", "/", "8">>

\* the subnet4 entries the enumerated configs draw from
DefPool ==
    { Object(<<IdKey(<<"1">>), SubnetKey(CidrA)>>),
      Object(<<SubnetKey(CidrB), IdKey(<<"2">>)>>),
      Object(<<IdKey(<<"2">>), OtherKey, SubnetKey(CidrB)>>),
      Object(<<IdKey(<<"1">>), SubnetKey(CidrB)>>),
      Object(<<IdKey(<<"2">>)>>),
      Object(<<SubnetKey(CidrA)>>),
      NotAnObject }

ConfigShapes == {"subnets", "no_dhcp4", "no_subnet4", "scalar"}

ConfigFiles ==
    [exists : BOOLEAN, valid : BOOLEAN, shape : {"subnets"}, defs : SeqsUpTo(DefPool, MaxDefs)]
    \cup [exists : BOOLEAN, valid : {TRUE}, shape : ConfigShapes \ {"subnets"}, defs : {<<>>}]

\* subnets is a dict in insertion order: the list of its [id, subnet] items
SubnetsSet(subnets, id, range) ==
    IF \E i \in 1..Len(subnets) : subnets[i].id = id
    THEN [i \in 1..Len(subnets) |-> IF subnets[i].id = id THEN [id |-> id, subnet |-> range]
                                    ELSE subnets[i]]
    ELSE Append(subnets, [id |-> id, subnet |-> range])

\* subnet.get(key, ''): the value of the last pair with that key, as JSON
\* objects keep the last of two equal keys
ObjectGet(keys, key) ==
    IF \E i \in 1..Len(keys) : keys[i][1] = key
    THEN keys[CHOOSE i \in 1..Len(keys) :
                  keys[i][1] = key /\ \A j \in (i + 1)..Len(keys) : keys[j][1] /= key][2]
    ELSE <<>>

\* lines 127-130 for one entry
TakeSubnet(subnets, entry) ==
    LET id == ObjectGet(entry.keys, "id")
        subnet_id == IF id = <<>> THEN <<>> ELSE PyStr(PyInt(id).v)
        subnet_range == ObjectGet(entry.keys, "subnet")
    IN  IF Truthy(subnet_id) /\ Truthy(subnet_range)
        THEN SubnetsSet(subnets, subnet_id, subnet_range)
        ELSE subnets

RECURSIVE StructuredLoop(_, _)
\* lines 126-130: the loop over subnet4; an entry that is no object has no
\* .get, and the AttributeError ends the loop with what was stored so far
StructuredLoop(defs, subnets) ==
    IF defs = <<>> THEN [subnets |-> subnets, exc |-> "none"]
    ELSE IF ~Head(defs).object THEN [subnets |-> subnets, exc |-> "AttributeError"]
    ELSE StructuredLoop(Tail(defs), TakeSubnet(subnets, Head(defs)))

\* lines 124-130: json.loads and the walk of Dhcp4.subnet4
StructuredStage(config) ==
    IF ~config.valid THEN [subnets |-> <<>>, exc |-> "JSONDecodeError"]
    ELSE IF config.shape = "scalar" THEN [subnets |-> <<>>, exc |-> "TypeError"]
    ELSE IF config.shape /= "subnets" THEN [subnets |-> <<>>, exc |-> "none"]
    ELSE StructuredLoop(config.defs, <<>>)

RECURSIVE Flatten(_)
\* the key/value pairs of the text in the order they appear
Flatten(defs) == IF defs = <<>> THEN <<>> ELSE Head(defs).keys \o Flatten(Tail(defs))

IsIdMatch(token) == token[1] = "id" /\ token[2] /= <<>> /\ \A i \in 1..Len(token[2]) : token[2][i] \in Digits
IsSubnetMatch(token) == token[1] = "subnet" /\ token[2] /= <<>>

RECURSIVE FindAll(_)
\* re.findall(r'"id":\s*(\d+).*?"subnet":\s*"([^"]+)"', text, re.DOTALL): the
\* leftmost "id" key with digits, then the nearest "subnet" key after it, and
\* again from the end of that match
FindAll(tokens) ==
    IF ~\E i, j \in 1..Len(tokens) : i < j /\ IsIdMatch(tokens[i]) /\ IsSubnetMatch(tokens[j])
    THEN <<>>
    ELSE LET i == CHOOSE k \in 1..Len(tokens) :
                      /\ IsIdMatch(tokens[k])
                      /\ \E m \in (k + 1)..Len(tokens) : IsSubnetMatch(tokens[m])
                      /\ \A l \in 1..(k - 1) :
                             ~(IsIdMatch(tokens[l]) /\ \E m \in (l + 1)..Len(tokens) : IsSubnetMatch(tokens[m]))
             j == CHOOSE m \in (i + 1)..Len(tokens) :
                      /\ IsSubnetMatch(tokens[m])
                      /\ \A l \in (i + 1)..(m - 1) : ~IsSubnetMatch(tokens[l])
         IN  <<[id |-> tokens[i][2], subnet |-> tokens[j][2]]>>
             \o FindAll(SubSeq(tokens, j + 1, Len(tokens)))

RECURSIVE StoreMatches(_, _)
\* lines 136-137
StoreMatches(matches, subnets) ==
    IF matches = <<>> THEN subnets
    ELSE StoreMatches(Tail(matches), SubnetsSet(subnets, Head(matches).id, Head(matches).subnet))

\* lines 133-137: the fallback on the raw text
FallbackStage(config) == StoreMatches(FindAll(Flatten(config.defs)), <<>>)

\* ConfigCatchesException narrowed to the failures of the file system
ConfigCatchesOnlyOSError(exc) == exc = "OSError"

\* CatchesJSONDecodeError widened: except Exception around the structured stage
CatchesEveryException(exc) == TRUE

\* line 131: except json.JSONDecodeError
CatchesJSONDecodeError(exc) == exc = "JSONDecodeError"
\* line 138: except Exception
ConfigCatchesException(exc) == TRUE

\* lines 114-141.  stages lists the extraction stages that ran.
GetSubnetInfo(config, io) ==
    IF ~config.exists THEN [raised |-> "none", subnets |-> <<>>, stages |-> <<>>]
    ELSE IF io /= "ok"
    THEN [raised |-> IF ConfigCatchesException(io) THEN "none" ELSE io,
          subnets |-> <<>>, stages |-> <<>>]
    ELSE LET st == StructuredStage(config)
         IN  IF st.exc = "none"
             THEN [raised |-> "none", subnets |-> st.subnets, stages |-> <<"structured">>]
             ELSE IF CatchesJSONDecodeError(st.exc)
             THEN [raised |-> "none", subnets |-> FallbackStage(config),
                   stages |-> <<"structured", "fallback">>]
             ELSE [raised |-> IF ConfigCatchesException(st.exc) THEN "none" ELSE st.exc,
                   subnets |-> st.subnets, stages |-> <<"structured">>]

NoLeaseFile == [exists |-> FALSE, header |-> FullHeader, rows |-> <<>>]

InitSubnet ==
    /\ leaseFile = NoLeaseFile
    /\ configFile \in ConfigFiles
    /\ call = NoCall
    /\ ret = None
    /\ locals = None
    /\ memo = NoMemo

\* lines 114-141 run once on the config file as it is
GetSubnetInfoCall ==
    /\ \E io \in IOOutcomes :
        /\ configFile.exists \/ io = "ok"
        /\ \E r \in {GetSubnetInfo(configFile, io)} :
               /\ call' = [fn |-> "get_subnet_info", arg |-> None,
                           exists |-> configFile.exists, io |-> io]
               /\ ret' = [raised |-> r.raised, subnets |-> r.subnets]
               /\ locals' = r.stages
    /\ UNCHANGED <<leaseFile, configFile>>

\* GET /api/subnets, GET / : one call of get_subnet_info
get_subnet_info ==
    /\ call = NoCall
    /\ GetSubnetInfoCall
    /\ UNCHANGED memo

\* the administrator removes the config file
RemoveConfigFile ==
    /\ configFile.exists
    /\ configFile' = [configFile EXCEPT !.exists = FALSE]
    /\ UNCHANGED <<leaseFile, call, ret, locals, memo>>

\* the administrator puts the config file back
CreateConfigFile ==
    /\ ~configFile.exists
    /\ configFile' = [configFile EXCEPT !.exists = TRUE]
    /\ UNCHANGED <<leaseFile, call, ret, locals, memo>>

NextSubnet ==
    \/ get_subnet_info
    \/ Respond
    \/ RemoveConfigFile
    \/ CreateConfigFile

SpecSubnet == InitSubnet /\ [][NextSubnet]_vars

(***************************************************************************)
(* generate_reservation_config                                             *)
(***************************************************************************)
\* str.lower() on the characters the enumerated hardware addresses use
LowerChar(c) == CASE c = "A" -> "a" [] c = "F" -> "f" [] OTHER -> c
\* Lower with the call of lower() forgotten
LowerOmitted(s) == s
Lower(s) == [i \in 1..Len(s) |-> LowerChar(s[i])]

\* lines 146-152: the reservation dict, its items in insertion order
Reservation(ip, mac, hostname) ==
    <<[key |-> "hw-address", value |-> Lower(mac)], [key |-> "ip-address", value |-> ip]>>
    \o (IF Truthy(hostname) THEN <<[key |-> "hostname", value |-> hostname]>> ELSE <<>>)

\* json.dumps(config_snippet, indent=2) of {"reservations": [reservation]}:
\* the lines of the text, each with its indentation; a member line carries
\* its key and its string value
JsonDumps(reservation) ==
    <<[indent |-> 0, text |-> "{"],
      [indent |-> 2, text |-> "\"reservations\": ["],
      [indent |-> 4, text |-> "{"]>>
    \o [i \in 1..Len(reservation) |->
           [indent |-> 6, text |-> "member", key |-> reservation[i].key,
            value |-> reservation[i].value, comma |-> i < Len(reservation)]]
    \o <<[indent |-> 4, text |-> "}"],
         [indent |-> 2, text |-> "]"],
         [indent |-> 0, text |-> "}"]>>

\* lines 163-194: the values the instruction template embeds
Instructions(ip, mac, hostname) ==
    [path |-> KEA_CONFIG_FILE, mac |-> Lower(mac), ip |-> ip,
     hostname |-> IF Truthy(hostname) THEN hostname ELSE <<>>]

\* lines 143-196
GenerateReservationConfig(ip, mac, hostname) ==
    [json_config |-> JsonDumps(Reservation(ip, mac, hostname)),
     instructions |-> Instructions(ip, mac, hostname)]

ReservationIps == {Ip9, Ip10, IpBad, <<>>}
ReservationMacs == SeqsUpTo({"A", "a", ":"}, MaxMacLen)
ReservationHostnames == {<<>>, <<"h">>, <<"H", "a">>, None}

InitReservation ==
    /\ leaseFile = NoLeaseFile
    /\ configFile = NoConfig
    /\ call = NoCall
    /\ ret = None
    /\ locals = None
    /\ memo = NoMemo

\* lines 143-196 run once on arguments of the given sets
GenerateReservationConfigCall(ips, macs, hostnames) ==
    /\ \E ip \in ips, mac \in macs, hostname \in hostnames :
        \E r \in {GenerateReservationConfig(ip, mac, hostname)} :
            /\ call' = [fn |-> "generate_reservation_config",
                        arg |-> [ip |-> ip, mac |-> mac, hostname |-> hostname],
                        exists |-> FALSE, io |-> "none"]
            /\ ret' = [raised |-> "none", json_config |-> r.json_config,
                       instructions |-> r.instructions]
            /\ locals' = None
    /\ UNCHANGED <<leaseFile, configFile>>

\* one call of generate_reservation_config
generate_reservation_config ==
    /\ call = NoCall
    /\ GenerateReservationConfigCall(ReservationIps, ReservationMacs, ReservationHostnames)
    /\ UNCHANGED memo

\* a key the JSON object of the request does not hold
Missing == <<"missing">>

\* what request.get_json() of line 230 hands to the handler: a JSON object
\* with or without its ip, mac and hostname members (a member is a string or
\* null), a JSON array, or the JSON value null
RequestBodies ==
    [kind : {"object"}, ip : {Missing, None, <<>>, Ip9},
     mac : {Missing, None, <<>>, <<"A", ":">>}, hostname : {Missing, <<"h">>}]
    \cup [kind : {"array", "null"}, ip : {Missing}, mac : {Missing}, hostname : {Missing}]

\* data.get(key, ''): only a dict has the method get
DataGet(data, key, default) ==
    IF data.kind /= "object" THEN Raise("AttributeError")
    ELSE IF data[key] = Missing THEN Ok(default) ELSE Ok(data[key])

ValidationError == <<"IP and MAC address are required">>

\* lines 227-243.  builder_calls lists the arguments of every call of
\* generate_reservation_config the handler makes; an exception that leaves
\* the handler makes the framework answer with status 500.
ApiReservation(data) ==
    LET ip == DataGet(data, "ip", <<>>)
        mac == DataGet(data, "mac", <<>>)
        hostname == DataGet(data, "hostname", <<>>)
    IN  IF ~ip.ok
        THEN [raised |-> ip.exc, status |-> 500, error |-> None,
              json_config |-> <<>>, instructions |-> None, builder_calls |-> <<>>]
        ELSE IF ~Truthy(ip.v) \/ ~Truthy(mac.v)
        THEN [raised |-> "none", status |-> 400, error |-> ValidationError,
              json_config |-> <<>>, instructions |-> None, builder_calls |-> <<>>]
        ELSE LET r == GenerateReservationConfig(ip.v, mac.v, hostname.v)
             IN  [raised |-> "none", status |-> 200, error |-> None,
                  json_config |-> r.json_config, instructions |-> r.instructions,
                  builder_calls |-> <<[ip |-> ip.v, mac |-> mac.v, hostname |-> hostname.v]>>]

\* one POST to /api/reservation
api_reservation ==
    /\ call = NoCall
    /\ \E data \in RequestBodies :
        \E r \in {ApiReservation(data)} :
            /\ call' = [fn |-> "api_reservation", arg |-> data, exists |-> FALSE, io |-> "none"]
            /\ ret' = [raised |-> r.raised, status |-> r.status, error |-> r.error,
                       json_config |-> r.json_config, instructions |-> r.instructions]
            /\ locals' = r.builder_calls
    /\ UNCHANGED <<leaseFile, configFile, memo>>

NextReservation ==
    \/ generate_reservation_config
    \/ api_reservation
    \/ Respond

SpecReservation == InitReservation /\ [][NextReservation]_vars

(***************************************************************************)
(* Calls in any order.  The four functions are called one after another,   *)
(* in any order, while the lease log and the config file are rewritten     *)
(* between the calls.  Nothing is reset between two calls: call, ret and   *)
(* locals stay as the previous call left them, so that a function that     *)
(* kept something from one call to the next would find it.                 *)
(***************************************************************************)
LeaseLogs ==
    { NoLeaseFile,
      [exists |-> TRUE, header |-> FullHeader, rows |-> <<<<Ip9, Mac, <<"5">>, St0>>>>],
      [exists |-> TRUE, header |-> FullHeader, rows |-> <<<<Ip10, Mac, <<"7">>, St0>>>>],
      [exists |-> TRUE, header |-> FullHeader, rows |-> <<<<Ip9, Mac, <<"x">>, St0>>>>] }

Configs ==
    { NoConfig,
      [exists |-> TRUE, valid |-> TRUE, shape |-> "subnets",
       defs |-> <<Object(<<IdKey(<<"1">>), SubnetKey(CidrA)>>)>>],
      [exists |-> TRUE, valid |-> FALSE, shape |-> "subnets",
       defs |-> <<Object(<<IdKey(<<"2">>), SubnetKey(CidrB)>>)>>] }

\* the same function with the same arguments reading the same contents
SameCall(seen, c, read) ==
    /\ seen.call.fn = c.fn
    /\ seen.call = c
    /\ seen.read = read

\* the observer notes the call that has just run (call', ret') and what it
\* read; the first note it chooses to keep is the one it compares with
Remember(read) ==
    \E keep \in BOOLEAN :
        memo' = [turn |-> 1 - memo.turn,
                 seen |-> IF memo.seen = <<>> /\ keep
                          THEN <<[call |-> call', read |-> read, ret |-> ret',
                                  turn |-> 1 - memo.turn]>>
                          ELSE memo.seen,
                 again |-> memo.seen /= <<>> /\ SameCall(memo.seen[1], call', read)]

InitAnyOrder ==
    /\ leaseFile \in LeaseLogs
    /\ configFile \in Configs
    /\ call = NoCall
    /\ ret = None
    /\ locals = None
    /\ memo = NoMemo

NextReadLeaseFile == ReadLeaseFileCall /\ Remember(leaseFile)
NextGetLeaseHistory == GetLeaseHistoryCall /\ Remember(leaseFile)
NextGetSubnetInfo == GetSubnetInfoCall /\ Remember(configFile)
NextGenerateReservationConfig ==
    GenerateReservationConfigCall({Ip9}, {<<"A">>, <<"a">>}, {<<>>}) /\ Remember(None)

\* the DHCP server rewrites, removes or recreates the lease log
RewriteLeaseFile ==
    /\ leaseFile' \in LeaseLogs \ {leaseFile}
    /\ UNCHANGED <<configFile, call, ret, locals, memo>>

\* the administrator rewrites, removes or recreates the config file
RewriteConfigFile ==
    /\ configFile' \in Configs \ {configFile}
    /\ UNCHANGED <<leaseFile, call, ret, locals, memo>>

NextAnyOrder ==
    \/ NextReadLeaseFile
    \/ NextGetLeaseHistory
    \/ NextGetSubnetInfo
    \/ NextGenerateReservationConfig
    \/ RewriteLeaseFile
    \/ RewriteConfigFile

SpecAnyOrder == InitAnyOrder /\ [][NextAnyOrder]_vars

(***************************************************************************)
(* Properties of the lease log functions.                                  *)
(***************************************************************************)
ReadDone == call.fn = "read_lease_file"
HistoryDone == call.fn = "get_lease_history"
\* the call found the file and the operating system let it be read
ReadClean == ReadDone /\ call.exists /\ call.io = "ok"
HistoryClean == HistoryDone /\ call.exists /\ call.io = "ok"

\* the rows of the log as the reader hands them over
FileRows == [i \in 1..Len(leaseFile.rows) |-> DictRow(leaseFile.header, leaseFile.rows[i])]
RowIndexes == 1..Len(leaseFile.rows)

\* the fields of a row as the log format defines them: a cell that is missing
\* is empty, and a log without a state column holds leases in the default
\* state "0"
AddressOf(row) == IF row["address"] = None THEN <<>> ELSE row["address"]
ExpireOf(row) == IF row["expire"] = None THEN <<>> ELSE row["expire"]
StateOf(row) ==
    IF "state" \notin DOMAIN row THEN <<"0">>
    ELSE IF row["state"] = None THEN <<>> ELSE row["state"]

IsNumber(raw) == raw /= None /\ raw /= <<>> /\ \A i \in 1..Len(raw) : raw[i] \in Digits
\* the raw field is an integer that is an epoch the platform can format
IsEpoch(raw) == IsNumber(raw) /\ DigitsValue(raw) <= TimestampMax
\* the epoch of a raw expire field: empty, "0" or unparseable counts as 0
EpochOf(raw) == IF IsEpoch(raw) THEN DigitsValue(raw) ELSE 0
\* the numeric value of a raw expire field, 0 when it is empty or no number
NumericOf(raw) == IF IsNumber(raw) THEN DigitsValue(raw) ELSE 0

ActiveIndexes(a) ==
    {i \in RowIndexes : AddressOf(FileRows[i]) = a /\ StateOf(FileRows[i]) = <<"0">>}
ActiveAddresses ==
    {AddressOf(FileRows[i]) : i \in {j \in RowIndexes : AddressOf(FileRows[j]) /= <<>>
                                                      /\ StateOf(FileRows[j]) = <<"0">>}}
MaxEpoch(a) ==
    CHOOSE m \in {EpochOf(ExpireOf(FileRows[i])) : i \in ActiveIndexes(a)} :
        \A i \in ActiveIndexes(a) : EpochOf(ExpireOf(FileRows[i])) <= m

\* C1: the snapshot of read_lease_file holds exactly one record for each
\* non-empty address that has a row with state "0", none for any other address,
\* and the record's expire_timestamp is the greatest epoch of the address's
\* state-"0" rows.
C1_SnapshotOnePerActiveAddress ==
    ReadClean =>
        /\ {ret.records[i].ip : i \in 1..Len(ret.records)} = ActiveAddresses
        /\ Len(ret.records) = Cardinality(ActiveAddresses)
        /\ \A i \in 1..Len(ret.records) :
               /\ ret.records[i].state = <<"0">>
               /\ ret.records[i].expire_timestamp = MaxEpoch(ret.records[i].ip)

\* the address as the tuple of its dot-separated integers
NumericAddress(ip) == [i \in 1..Len(Split(ip)) |-> DigitsValue(Split(ip)[i])]
\* a comes before b in the order of tuples of integers
Before(a, b) ==
    \/ Len(a) < Len(b) /\ \A i \in 1..Len(a) : a[i] = b[i]
    \/ \E k \in 1..Len(a) :
           /\ k <= Len(b)
           /\ a[k] < b[k]
           /\ \A i \in 1..(k - 1) : a[i] = b[i]

\* C2 as claimed: the records of read_lease_file are in strictly ascending
\* numeric order of address, no two adjacent records comparing equal.
C2_StrictlyAscending ==
    ReadDone =>
        \A i \in 1..(Len(ret.records) - 1) :
            Before(NumericAddress(ret.records[i].ip), NumericAddress(ret.records[i + 1].ip))

\* C2 as amended: the records of read_lease_file are in ascending numeric order
\* of address (9.0.0.1 before 10.0.0.1); two adjacent records compare equal
\* only when their address strings are different spellings of the same four
\* integers, and no address string occurs twice.
C2_Ascending ==
    ReadDone =>
        /\ \A i \in 1..(Len(ret.records) - 1) :
               /\ ~Before(NumericAddress(ret.records[i + 1].ip),
                          NumericAddress(ret.records[i].ip))
               /\ ret.records[i].ip /= ret.records[i + 1].ip
        /\ \A i, j \in 1..Len(ret.records) :
               ret.records[i].ip = ret.records[j].ip => i = j

\* the log lists 10.0.0.1 before 9.0.0.1 and the snapshot returns them in
\* numeric order
C2_Witness ==
    /\ ReadClean
    /\ Len(leaseFile.rows) >= 2
    /\ leaseFile.rows[1][1] = Ip10
    /\ Len(ret.records) = 2
    /\ ret.records[1].ip = Ip9
    /\ ret.records[2].ip = Ip10

\* what a history record says of the row it was made from
RowFacts(row) == <<AddressOf(row), row["expire"], IF "state" \in DOMAIN row THEN row["state"] ELSE <<>>>>
RecordFacts(rec) == <<rec.ip, rec.expire_ts, rec.state>>
MatchingIndexes == {i \in RowIndexes : FileRows[i]["address"] = call.arg}

\* C3: get_lease_history returns exactly the rows whose address equals the
\* query string, one record per matching row, of any state, and an empty
\* sequence without an error when no row matches.
C3_HistoryHasEveryMatchingRow ==
    HistoryClean =>
        /\ ret.err = None
        /\ Len(ret.records) = Cardinality(MatchingIndexes)
        /\ \A i \in MatchingIndexes :
               Cardinality({j \in 1..Len(ret.records) :
                               RecordFacts(ret.records[j]) = RowFacts(FileRows[i])})
               = Cardinality({j \in MatchingIndexes : RowFacts(FileRows[j]) = RowFacts(FileRows[i])})

\* C4: the history is sorted in descending order of the numeric expire field,
\* a row with an empty or non-numeric expire field ordered as 0 and still
\* returned.
C4_HistorySortedDescending ==
    HistoryClean =>
        /\ Len(ret.records) = Cardinality(MatchingIndexes)
        /\ \A i \in 1..(Len(ret.records) - 1) :
               NumericOf(ret.records[i].expire_ts) >= NumericOf(ret.records[i + 1].expire_ts)

\* the display value the raw expire field stands for
DisplayOf(raw) ==
    IF raw = None \/ raw = <<>> \/ raw = <<"0">> THEN <<"No expiration">>
    ELSE IF ~IsEpoch(raw) THEN <<"Invalid date">>
    ELSE <<"%Y-%m-%d %H:%M:%S", DigitsValue(raw)>>

\* C5: in read_lease_file and in get_lease_history the display value of every
\* record built is determined by its raw expire field alone: "No expiration"
\* for an empty field or "0", "Invalid date" for a field that is no integer
\* epoch, the formatted timestamp otherwise; read_lease_file stores epoch 0 in
\* the first two cases and the parsed integer in the third.
C5_ExpiryDisplay ==
    /\ ReadDone =>
           /\ \A i \in 1..Len(locals) :
                  /\ locals[i].expire = DisplayOf(locals[i].expire_ts)
                  /\ locals[i].expire_timestamp = EpochOf(locals[i].expire_ts)
           /\ \A i \in 1..Len(ret.records) :
                  /\ ret.records[i].expire = DisplayOf(ret.records[i].expire_ts)
                  /\ ret.records[i].expire_timestamp = EpochOf(ret.records[i].expire_ts)
    /\ HistoryDone =>
           /\ \A i \in 1..Len(locals) : locals[i].expire = DisplayOf(locals[i].expire_ts)
           /\ \A i \in 1..Len(ret.records) :
                  ret.records[i].expire = DisplayOf(ret.records[i].expire_ts)

\* a history that holds a row shown as "No expiration" and a row shown as a
\* formatted timestamp
C5_Witness ==
    /\ HistoryClean
    /\ ret.err = None
    /\ \E i, j \in 1..Len(ret.records) :
           /\ ret.records[i].expire = <<"No expiration">>
           /\ ret.records[i].expire_ts = <<"0">>
           /\ ret.records[j].expire = <<"%Y-%m-%d %H:%M:%S", 5>>

ExceptionNames == {"OSError", "ValueError", "TypeError"}

\* C6: read_lease_file and get_lease_history never raise; they return either
\* (records, no error) or (empty, error); the error is "Lease file not found"
\* exactly when the file was missing, and "Error reading lease file" with
\* the cause on a read or parse failure.
C6_ErrorAsValue ==
    (ReadDone \/ HistoryDone) =>
        /\ ret.raised = "none"
        /\ ret.err /= None => ret.records = <<>>
        /\ ret.err = NotFound <=> ~call.exists
        /\ (call.exists /\ call.io /= "ok") => ret.err = <<"Error reading lease file", call.io>>
        /\ (call.exists /\ ret.err /= None) =>
               \E e \in ExceptionNames : ret.err = <<"Error reading lease file", e>>

\* a call that read the file and failed on its contents
C6_Witness ==
    /\ ReadClean
    /\ ret.raised = "none"
    /\ ret.records = <<>>
    /\ ret.err = <<"Error reading lease file", "ValueError">>

\* a row is well formed when it has every column, a dotted-quad address and
\* an expire field that is empty or a number
WellFormed(i) ==
    /\ Len(leaseFile.rows[i]) >= Len(leaseFile.header)
    /\ AddressOf(FileRows[i]) /= <<>>
    /\ \A k \in 1..Len(Split(AddressOf(FileRows[i]))) : IsNumber(Split(AddressOf(FileRows[i]))[k])
    /\ ExpireOf(FileRows[i]) = <<>> \/ IsNumber(ExpireOf(FileRows[i]))

\* C7: a malformed row never makes read_lease_file fail: whatever rows lack
\* columns or carry unusable values, it returns no error and the records of
\* the well-formed active rows; a row without a state value is not active.
C7_MalformedRowNotFatal ==
    ReadClean =>
        /\ ret.err = None
        /\ \A i \in RowIndexes :
               (WellFormed(i) /\ StateOf(FileRows[i]) = <<"0">>) =>
                   \E j \in 1..Len(ret.records) : ret.records[j].ip = AddressOf(FileRows[i])
        /\ \A j \in 1..Len(ret.records) :
               \E i \in RowIndexes : /\ AddressOf(FileRows[i]) = ret.records[j].ip
                                     /\ StateOf(FileRows[i]) = <<"0">>

(***************************************************************************)
(* Properties of get_subnet_info.                                          *)
(***************************************************************************)
SubnetDone == call.fn = "get_subnet_info"
SubnetClean == SubnetDone /\ call.exists /\ call.io = "ok"

\* the mapping as a set of <<id, subnet>> pairs
Pairs(subnets) == {<<subnets[i].id, subnets[i].subnet>> : i \in 1..Len(subnets)}

HasKey(entry, key) == \E i \in 1..Len(entry.keys) : entry.keys[i][1] = key
ValueOfKey(entry, key) == entry.keys[CHOOSE i \in 1..Len(entry.keys) : entry.keys[i][1] = key][2]
\* every subnet4 entry is a definition with an id and a subnet field
EveryDefComplete ==
    \A i \in 1..Len(configFile.defs) :
        /\ configFile.defs[i].object
        /\ HasKey(configFile.defs[i], "id")
        /\ HasKey(configFile.defs[i], "subnet")
\* each id with the subnet of the last definition that has that id
DefinedMapping ==
    {<<ValueOfKey(configFile.defs[i], "id"), ValueOfKey(configFile.defs[i], "subnet")>> :
        i \in {k \in 1..Len(configFile.defs) :
                  \A l \in (k + 1)..Len(configFile.defs) :
                      ValueOfKey(configFile.defs[l], "id") /= ValueOfKey(configFile.defs[k], "id")}}

\* C8: for a config that lists subnet definitions with id and subnet fields,
\* get_subnet_info returns the mapping from each id to its subnet, and for a
\* corrupted document with the same id/subnet text the fallback returns that
\* same mapping, whatever the order of the two keys inside a definition.
C8_FallbackRecoversSameMapping ==
    (SubnetClean /\ configFile.shape = "subnets" /\ EveryDefComplete) =>
        Pairs(ret.subnets) = DefinedMapping

IsString(v) == v /= None /\ \A i \in 1..Len(v) : v[i] \in {"a", "b", "/", "8"} \cup Digits

\* C9: get_subnet_info raises nothing; it returns a mapping from id strings to
\* CIDR strings, and the empty mapping when the config file is missing or
\* unreadable or when neither stage extracts anything.
C9_SubnetInfoNeverFails ==
    SubnetDone =>
        /\ ret.raised = "none"
        /\ \A i \in 1..Len(ret.subnets) :
               /\ IsNumber(ret.subnets[i].id)
               /\ ret.subnets[i].subnet /= <<>>
               /\ IsString(ret.subnets[i].subnet)
        /\ \A i, j \in 1..Len(ret.subnets) : ret.subnets[i].id = ret.subnets[j].id => i = j
        /\ (~call.exists \/ call.io /= "ok") => ret.subnets = <<>>
        /\ (call.exists /\ call.io = "ok" /\ ~configFile.valid
              /\ ~\E i \in 1..Len(configFile.defs) : HasKey(configFile.defs[i], "subnet"))
               => ret.subnets = <<>>

\* a config whose top-level value is no object: the structured stage fails
\* with an exception other than a decode error, and the caller sees an empty
\* mapping
C9_Witness ==
    /\ SubnetClean
    /\ configFile.shape = "scalar"
    /\ ret.raised = "none"
    /\ ret.subnets = <<>>

\* the subnet4 entries the loop of the structured stage gets to: those before
\* the first entry that is no object
Walked == {k \in 1..Len(configFile.defs) : \A l \in 1..k : configFile.defs[l].object}
\* the walked entries that have an id and a subnet
Usable == {k \in Walked : HasKey(configFile.defs[k], "id") /\ HasKey(configFile.defs[k], "subnet")}
IdOfDef(k) == ValueOfKey(configFile.defs[k], "id")
\* each id of the structured subnet list with the subnet of its last entry
LastOfStructured ==
    IF configFile.shape /= "subnets" THEN {}
    ELSE {<<IdOfDef(k), ValueOfKey(configFile.defs[k], "subnet")>> :
             k \in {u \in Usable : \A l \in Usable : l > u => IdOfDef(l) /= IdOfDef(u)}}
\* the matches of the pattern in the text, in order
TextMatches == FindAll(Flatten(configFile.defs))
\* each matched id with the subnet of its last match
LastOfMatches ==
    {<<TextMatches[k].id, TextMatches[k].subnet>> :
        k \in {u \in 1..Len(TextMatches) :
                  \A l \in (u + 1)..Len(TextMatches) : TextMatches[l].id /= TextMatches[u].id}}

\* C14: get_subnet_info, once it has read the config file, always runs the
\* structured stage first; the pattern stage runs after it exactly when the
\* content is no valid JSON; when the content parses, the mapping holds only
\* entries of the structured subnet list (none when there is no list); and in
\* either stage the last entry of an id is the one the mapping holds.
C14_StagePrecedence ==
    SubnetClean =>
        /\ locals \in {<<"structured">>, <<"structured", "fallback">>}
        /\ (locals = <<"structured", "fallback">>) <=> ~configFile.valid
        /\ configFile.valid => Pairs(ret.subnets) = LastOfStructured
        /\ ~configFile.valid => Pairs(ret.subnets) = LastOfMatches
        /\ Len(ret.subnets) = Cardinality(Pairs(ret.subnets))

\* a corrupted document with two definitions of id 1: the pattern stage ran
\* after the structured one and the mapping holds the second subnet
C14_Witness ==
    /\ SubnetClean
    /\ ~configFile.valid
    /\ locals = <<"structured", "fallback">>
    /\ Len(TextMatches) = 2
    /\ TextMatches[1].id = TextMatches[2].id
    /\ TextMatches[1].subnet /= TextMatches[2].subnet
    /\ ret.subnets = <<[id |-> TextMatches[2].id, subnet |-> TextMatches[2].subnet]>>

(***************************************************************************)
(* Properties of generate_reservation_config.                              *)
(***************************************************************************)
ReservationDone == call.fn = "generate_reservation_config"

\* the members of the entries of the fragment's reservations list
MemberLines == {i \in 1..Len(ret.json_config) : ret.json_config[i].indent = 6}
EntryOpenings ==
    {i \in 1..Len(ret.json_config) :
        ret.json_config[i].indent = 4 /\ ret.json_config[i].text = "{"}
HasMember(key) == \E i \in MemberLines : ret.json_config[i].key = key
MemberValues(key) == {ret.json_config[i].value : i \in {j \in MemberLines : ret.json_config[j].key = key}}

Lowercased(s, t) ==
    /\ Len(s) = Len(t)
    /\ \A i \in 1..Len(s) :
           \/ s[i] \in {"A", "F"} /\ <<s[i], t[i]>> \in {<<"A", "a">>, <<"F", "f">>}
           \/ s[i] \notin {"A", "F"} /\ t[i] = s[i]

\* C10: the fragment of generate_reservation_config has a reservations list
\* of exactly one entry, with the hardware address mac lowercased, the IP
\* address ip verbatim, and a hostname key exactly when hostname is non-empty,
\* holding hostname verbatim.
C10_ReservationFragment ==
    ReservationDone =>
        /\ Cardinality(EntryOpenings) = 1
        /\ \E v \in MemberValues("hw-address") :
               MemberValues("hw-address") = {v} /\ Lowercased(call.arg.mac, v)
        /\ MemberValues("ip-address") = {call.arg.ip}
        /\ HasMember("hostname") <=> (call.arg.hostname /= None /\ call.arg.hostname /= <<>>)
        /\ HasMember("hostname") => MemberValues("hostname") = {call.arg.hostname}
        /\ \A i \in MemberLines :
               ret.json_config[i].key \in {"hw-address", "ip-address", "hostname"}
        /\ Cardinality(MemberLines) = IF HasMember("hostname") THEN 3 ELSE 2

\* a reservation for an upper-case hardware address and an upper-case hostname
C10_Witness ==
    /\ ReservationDone
    /\ call.arg.mac = <<"A", ":">>
    /\ call.arg.hostname = <<"H", "a">>
    /\ HasMember("hostname")
    /\ MemberValues("hw-address") = {<<"a", ":">>}

(***************************************************************************)
(* Properties of the reservation request handler.                          *)
(***************************************************************************)
ApiDone == call.fn = "api_reservation"
\* the request does not carry a non-empty value for the field
FieldAbsent(body, key) == body.kind /= "object" \/ body[key] \in {Missing, None, <<>>}
RequiredFieldAbsent(body) == FieldAbsent(body, "ip") \/ FieldAbsent(body, "mac")

\* C11: a reservation request whose ip or mac is missing or empty is answered
\* with the validation failure (status 400, "IP and MAC address are
\* required") without generate_reservation_config being called, it ends in no
\* other failure, and the builder is only ever called with a non-empty ip and
\* a non-empty mac.
C11_MissingFieldIsValidationFailure ==
    ApiDone =>
        /\ RequiredFieldAbsent(call.arg) =>
               /\ ret.raised = "none"
               /\ ret.status = 400
               /\ ret.error = ValidationError
               /\ locals = <<>>
        /\ \A i \in 1..Len(locals) :
               /\ locals[i].ip \notin {Missing, None, <<>>}
               /\ locals[i].mac \notin {Missing, None, <<>>}

(***************************************************************************)
(* Properties of calls in any order.                                       *)
(***************************************************************************)
\* the file contents a call of the function reads
ReadBy(fn) ==
    CASE fn \in {"read_lease_file", "get_lease_history"} -> leaseFile
      [] fn = "get_subnet_info" -> configFile
      [] OTHER -> None

Returned(fn) == call.fn = fn /\ call.io \notin InProgress
\* open() was attempted while the file was absent
AbsentAtOpen == call.io = "FileNotFoundError"
GenericError == ret.err[1] = "Error reading lease file"

\* C15: whatever the DHCP server does to the lease file during a call of
\* read_lease_file or get_lease_history, a call that attempts open() while
\* the file is absent returns "Lease file not found", and "Error reading
\* lease file" is returned only for a failure on a file that exists.
C15_ConditionMatchesFileAtOpen ==
    (Returned("read_lease_file") \/ Returned("get_lease_history")) =>
        /\ AbsentAtOpen => ret.raised = "none" /\ ret.err = NotFound
        /\ (ret.raised = "none" /\ GenericError) => ~AbsentAtOpen

\* the loop of read_lease_file has consumed the rows 1..call.pos
Scanning == call.fn = "read_lease_file" /\ call.io = "reading"
\* the state-"0" rows of address a among the first n rows
PrefixActive(a, n) ==
    {i \in 1..n : AddressOf(FileRows[i]) = a /\ StateOf(FileRows[i]) = <<"0">>}
PrefixAddresses(n) ==
    {AddressOf(FileRows[i]) : i \in {j \in 1..n : AddressOf(FileRows[j]) /= <<>>
                                                  /\ StateOf(FileRows[j]) = <<"0">>}}
RowEpoch(i) == EpochOf(ExpireOf(FileRows[i]))
\* the earliest of the rows of a in the prefix that have its greatest epoch
EarliestMaximum(a, n) ==
    CHOOSE k \in PrefixActive(a, n) :
        /\ \A i \in PrefixActive(a, n) : RowEpoch(i) <= RowEpoch(k)
        /\ \A i \in PrefixActive(a, n) : RowEpoch(i) = RowEpoch(k) => k <= i
StoredIndexes(d, a) == {i \in 1..Len(d) : d[i].ip = a}
\* the stored record was built from row k
BuiltFrom(rec, k) ==
    /\ rec.ip = AddressOf(FileRows[k])
    /\ rec.expire_ts = FileRows[k]["expire"]
    /\ rec.expire_timestamp = RowEpoch(k)

StoredIsEarliestMaximum ==
    Scanning =>
        /\ {locals[i].ip : i \in 1..Len(locals)} = PrefixAddresses(call.pos)
        /\ \A a \in PrefixAddresses(call.pos) :
               /\ Cardinality(StoredIndexes(locals, a)) = 1
               /\ \A i \in StoredIndexes(locals, a) :
                      BuiltFrom(locals[i], EarliestMaximum(a, call.pos))

\* one more row is consumed
RowStep == Scanning /\ call'.fn = "read_lease_file" /\ call'.io = "reading"

\* C13: after any prefix of rows read_lease_file has consumed, the record
\* stored for an address is the earliest state-"0" row of the address in the
\* prefix that has the greatest epoch so far; consuming a row replaces a
\* stored record only by one of a strictly greater epoch, never lowers a
\* stored epoch and never removes an address.
C13_StoredIsEarliestMaximum ==
    /\ []StoredIsEarliestMaximum
    /\ [][RowStep =>
            \A i \in 1..Len(locals) :
               \E j \in 1..Len(locals') :
                  /\ locals'[j].ip = locals[i].ip
                  /\ locals'[j].expire_timestamp >= locals[i].expire_timestamp
                  /\ locals'[j] /= locals[i] =>
                         locals'[j].expire_timestamp > locals[i].expire_timestamp]_vars

\* two rows of one address with the epoch 5, written "5" and "05", have been
\* consumed and the first is the one stored
C13_Witness ==
    /\ Scanning
    /\ call.pos = 2
    /\ PrefixActive(Ip9, 2) = {1, 2}
    /\ FileRows[1]["expire"] = <<"5">>
    /\ FileRows[2]["expire"] = <<"0", "5">>
    /\ Len(locals) = 1
    /\ locals[1].expire_ts = <<"5">>

====
